---- MODULE Spec2Model ----
(* Model of src/src/controllers/CourseController.ts: the course, topic and   *)
(* content request handlers and the route table that guards them.            *)
(* The store is the three Prisma tables the handlers write (course, topic,   *)
(* content) plus the fixed teacher table they read.                          *)
(* A handler that writes awaits prisma twice, once for its lookup and once   *)
(* for its write, and other requests run between the two.  It is therefore   *)
(* two actions: the route action (middleware, validation, lookup, asserts),  *)
(* which answers or issues the write into pending, and the write action,     *)
(* which applies the write to the store as it is by then and answers.        *)
(* Every specification runs all thirteen routes from the empty store; the    *)
(* specifications differ in the sets the request fields are drawn from.      *)
(* The middleware and the synchronous code touch no table, so they are part  *)
(* of the route action.  A read handler awaits once and is one action.       *)
(* The columns description and subjectId are opaque pass-through values that *)
(* no handler reads back; they are left out of the stored record.            *)
EXTENDS Integers, FiniteSets, Sequences, Bags, TLC

VARIABLES courses, topics, contents, nextCourseId, nextTopicId, nextContentId,
          pending, last

vars == <<courses, topics, contents, nextCourseId, nextTopicId, nextContentId,
          pending, last>>

(* ---------------------------------------------------------------- bounds *)
(* courses, topics and contents ever created, taken together *)
MaxRows == 3

(* requests between their lookup and their write at one time *)
MaxInFlight == 2

(* ------------------------------------------------------- HTTP constants *)
OK == 200

CREATED == 201

BAD_REQUEST == 400

UNAUTHORIZED == 401

NOT_FOUND == 404

(* the handler set no status: a rejected prisma promise, or a TypeError on  *)
(* a missing relation, left the handler through catchErrors                 *)
THROWN == 0 - 1

(* ----------------------------------------------------- JavaScript values *)
(* A request field is a tagged JavaScript value, so that === distinguishes  *)
(* the string "true" from the boolean true.                                 *)
Undefined == [t |-> "undefined", v |-> ""]

Str(s) == [t |-> "string", v |-> s]

Bool(b) == [t |-> "boolean", v |-> b]

Num(n) == [t |-> "number", v |-> n]

Truthy(x) ==
  /\ x.t # "undefined"
  /\ ~(x.t = "string" /\ x.v = "")
  /\ ~(x.t = "boolean" /\ x.v = "false")
  /\ ~(x.t = "number" /\ x.v = "0")

NoFile == "nofile"

ReadFileBase64(f) == IF f = "hi" THEN "aGk=" ELSE IF f = "old" THEN "b2xk" ELSE ""

(* ------------------------------------------------------ the teacher table *)
(* u1 and u2 have teacher profiles t1 and t2; u3 carries the teacher role   *)
(* but has no profile; u4 is a student.                                     *)
Teachers == { [teacherId |-> "t1", userId |-> "u1"],
              [teacherId |-> "t2", userId |-> "u2"] }

NoTeacher == [teacherId |-> "none", userId |-> "none"]

Callers == { [authed |-> FALSE, userId |-> "undefined", role |-> "NONE"],
             [authed |-> TRUE, userId |-> "u1", role |-> "TEACHER"],
             [authed |-> TRUE, userId |-> "u2", role |-> "TEACHER"],
             [authed |-> TRUE, userId |-> "u3", role |-> "TEACHER"],
             [authed |-> TRUE, userId |-> "u4", role |-> "STUDENT"] }

(* prisma.teacher.findUnique({ where: { userId } }) *)
FindTeacherFirst(userId) == [teacherId |-> "t1", userId |-> "u1"]

FindTeacherByUserId(userId) ==
  IF \E t \in Teachers : t.userId = userId
  THEN CHOOSE t \in Teachers : t.userId = userId
  ELSE NoTeacher

(* the teacher relation of a course row: course.teacher *)
TeacherOfCourse(course) == CHOOSE t \in Teachers : t.teacherId = course.teacherId

(* ------------------------------------------------------- request inputs *)
(* the ids a request names: none, the first row and the one after it *)
Ids == 0 .. 2

TitleInputs == { Undefined, Str(""), Str("A") }

NewTitleInputs == { Undefined, Str("A") }

IsPublicInputs == { Undefined, Str("true"), Str("false"), Str("yes"),
                    Bool("true"), Bool("false"), Num("1") }

FileInputs == { NoFile, "hi" }

TypeInputs == { Undefined, Str("TEXT"), Str("AUDIO") }

DataInputs == { Undefined, Str("x") }

BaseReq(op, caller) ==
  [ op |-> op, caller |-> caller, userId |-> caller.userId, id |-> 0,
    title |-> Undefined, isPublic |-> Undefined, file |-> NoFile,
    type |-> Undefined, data |-> Undefined ]

NoReq == BaseReq("none", CHOOSE c \in Callers : ~c.authed)

(* a prisma write as the handler issues it: the table operation, the row    *)
(* it names and the data it carries                                         *)
NoCall ==
  [ op |-> "none", id |-> 0, title |-> Undefined, isPublic |-> FALSE,
    teacherId |-> "", image |-> "", type |-> Undefined, data |-> Undefined ]

(* What a step of a handler did.  req: the request, in the step that takes  *)
(* it from the route; call: the write the handler issued or got back;       *)
(* reached: the handler ran; status: the status answered, 0 while the       *)
(* handler waits for its write; afterWrite: the step is the one after the   *)
(* write await.                                                             *)
Response(req, call, reached, status, result, afterWrite) ==
  [ req |-> req, call |-> call, reached |-> reached, status |-> status,
    result |-> result, afterWrite |-> afterWrite ]

(* ------------------------------------------------------------ middleware *)
(* authenticate and isTeacher live outside the controller: the first lets   *)
(* an authenticated caller through, the second a caller with the teacher    *)
(* role; either one turns the request away with an authorization denial.    *)
Authenticate(caller) == caller.authed

IsTeacher(caller) == caller.role = "TEACHER"

RECURSIVE ChainStatus(_, _)
ChainStatus(chain, caller) ==
  IF chain = << >> THEN 0
  ELSE IF Head(chain) = "authenticate" /\ ~Authenticate(caller) THEN UNAUTHORIZED
  ELSE IF Head(chain) = "isTeacher" /\ ~IsTeacher(caller) THEN UNAUTHORIZED
  ELSE ChainStatus(Tail(chain), caller)

(* the route table: the middleware in front of each handler *)
RouteChain(op) ==
  CASE op = "getAllCourses" -> << >>
    [] op = "getPublicCourses" -> << >>
    [] op = "getCourseById" -> << "authenticate" >>
    [] op = "createCourse" -> << "authenticate", "isTeacher", "upload" >>
    [] op = "updateCourse" -> << "authenticate", "isTeacher", "upload" >>
    [] OTHER -> << "authenticate", "isTeacher" >>

(* ------------------------------------------------------------- ownership *)
(* course.teacher.userId, topic.course.teacher.userId and                   *)
(* content.topic.course.teacher.userId; "none" when the row is absent.      *)
CourseOwner(courseId) ==
  IF courseId \in DOMAIN courses THEN TeacherOfCourse(courses[courseId]).userId ELSE "none"

TopicOwner(topicId) ==
  IF topicId \in DOMAIN topics THEN CourseOwner(topics[topicId].courseId) ELSE "none"

ContentOwner(contentId) ==
  IF contentId \in DOMAIN contents THEN TopicOwner(contents[contentId].topicId) ELSE "none"

(* A topic whose course row is gone, or a content whose topic or course row *)
(* is gone: the included relation is null and reading .teacher or .course   *)
(* of it throws before any appAssert.                                       *)
TopicChainBroken(topicId) ==
  topicId \in DOMAIN topics /\ topics[topicId].courseId \notin DOMAIN courses

ContentChainBroken(contentId) ==
  /\ contentId \in DOMAIN contents
  /\ \/ contents[contentId].topicId \notin DOMAIN topics
     \/ TopicChainBroken(contents[contentId].topicId)

(* appAssert(entity, NOT_FOUND, ..); appAssert(owner === teacherId, UNAUTHORIZED, ..) *)
GuardOwnerFirst(found, owner, userId) ==
  IF owner # userId THEN UNAUTHORIZED
  ELSE IF ~found THEN NOT_FOUND
  ELSE 0

GuardNoOwner(found, owner, userId) ==
  IF ~found THEN NOT_FOUND ELSE 0

Guard(found, owner, userId) ==
  IF ~found THEN NOT_FOUND
  ELSE IF owner # userId THEN UNAUTHORIZED
  ELSE 0

(* const isPublicBoolean = isPublic === "true" || isPublic === true *)
IsPublicBooleanStringOnly(isPublic) == isPublic = Str("true")

IsPublicBoolean(isPublic) == isPublic = Str("true") \/ isPublic = Bool("true")

validTypes == { "TEXT", "LINK", "YOUTUBE_VIDEO" }

(* Prisma leaves a column alone when the update data carries undefined *)
Patch(old, x) == IF x.t = "undefined" THEN old ELSE x.v

(* ---------------------------------------------------------------- Init *)
(* pending is the bag of writes issued by handlers that passed their lookup *)
(* and not yet run by the store.  last is what the last step of a handler   *)
(* did; the next step is taken once it has been observed.                   *)
NoResponse == Response(NoReq, NoCall, FALSE, 0, {}, FALSE)

Idle == last = NoResponse

(* room for one more request in flight *)
Room == BagCardinality(pending) < MaxInFlight

CreateOps == { "createCourse", "addTopic", "addContent" }

(* the rows created so far and the creates in flight *)
RowsClaimed ==
  (nextCourseId - 1) + (nextTopicId - 1) + (nextContentId - 1)
  + BagCardinality([p \in { q \in DOMAIN pending : q.op \in CreateOps } |-> pending[p]])

RoomForRow == RowsClaimed < MaxRows

Init ==
  /\ courses = << >>
  /\ topics = << >>
  /\ contents = << >>
  /\ nextCourseId = 1
  /\ nextTopicId = 1
  /\ nextContentId = 1
  /\ pending = EmptyBag
  /\ last = NoResponse

(* a middleware of the route answered; the handler never ran *)
Rejected(req) ==
  /\ last' = Response(req, NoCall, FALSE, ChainStatus(RouteChain(req.op), req.caller),
                       {}, FALSE)
  /\ UNCHANGED <<courses, topics, contents, nextCourseId, nextTopicId, nextContentId,
                 pending>>

(* the handler answered with status before any write was issued *)
Reply(req, status, result) ==
  /\ last' = Response(req, NoCall, TRUE, status, result, FALSE)
  /\ UNCHANGED <<courses, topics, contents, nextCourseId, nextTopicId, nextContentId,
                 pending>>

(* the data of the write a request leads to, as computed before the await *)
PrismaCall(req, teacherId, image) ==
  [ op |-> req.op, id |-> req.id, title |-> req.title,
    isPublic |-> IsPublicBoolean(req.isPublic), teacherId |-> teacherId,
    image |-> image, type |-> req.type, data |-> req.data ]

(* the lookup and the asserts passed: the write is issued and awaited *)
Suspend(req, call) ==
  /\ pending' = pending (+) SetToBag({call})
  /\ last' = Response(req, call, TRUE, 0, {}, FALSE)
  /\ UNCHANGED <<courses, topics, contents, nextCourseId, nextTopicId, nextContentId>>

(* the awaited write p came back and the handler answered *)
Answered(p, status, result) ==
  /\ pending' = pending (-) SetToBag({p})
  /\ last' = Response(NoReq, p, TRUE, status, result, TRUE)

(* the awaited write was refused: nothing is stored, the handler throws *)
Refused(p) ==
  /\ Answered(p, THROWN, {})
  /\ UNCHANGED <<courses, topics, contents, nextCourseId, nextTopicId, nextContentId>>

Remove(f, ids) == [k \in (DOMAIN f) \ ids |-> f[k]]

TopicsOfCourse(courseId) == { t \in DOMAIN topics : topics[t].courseId = courseId }

ContentsOfTopics(ts) == { c \in DOMAIN contents : contents[c].topicId \in ts }

(* ------------------------------------------------------ createCourseHandler *)
CreateCourseStatusNoImageCheck(req) ==
  IF ~Truthy(req.title) THEN BAD_REQUEST
  ELSE IF FindTeacherByUserId(req.userId) = NoTeacher THEN NOT_FOUND
  ELSE 0

(* lines 24-41: title, teacher profile, image; 0 when all three pass *)
CreateCourseStatus(req) ==
  IF ~Truthy(req.title) THEN BAD_REQUEST
  ELSE IF FindTeacherByUserId(req.userId) = NoTeacher THEN NOT_FOUND
  ELSE IF req.file = NoFile THEN BAD_REQUEST
  ELSE 0

createCourseHandler(req) ==
  IF CreateCourseStatus(req) # 0
  THEN Reply(req, CreateCourseStatus(req), {})
  ELSE Suspend(req, PrismaCall(req, FindTeacherByUserId(req.userId).teacherId,
                                ReadFileBase64(req.file)))

(* lines 51-66: prisma.course.create inside try/catch *)
createCourseWrite(p, dbOk) ==
  LET course == [ title |-> p.title.v, isPublic |-> p.isPublic,
                  teacherId |-> p.teacherId, image |-> p.image ]
  IN IF dbOk
     THEN /\ courses' = (nextCourseId :> course) @@ courses
          /\ nextCourseId' = nextCourseId + 1
          /\ Answered(p, CREATED, {nextCourseId})
          /\ UNCHANGED <<topics, contents, nextTopicId, nextContentId>>
     ELSE /\ Answered(p, BAD_REQUEST, {})
          /\ UNCHANGED <<courses, topics, contents, nextCourseId, nextTopicId,
                         nextContentId>>

(* --------------------------------------------------------- read handlers *)
getAllCoursesHandler(req) == Reply(req, OK, DOMAIN courses)

FindManyCoursesUnfiltered == DOMAIN courses

FindManyPublicCourses == { c \in DOMAIN courses : courses[c].isPublic = TRUE }

getPublicCoursesHandler(req) == Reply(req, OK, FindManyPublicCourses)

getCourseByIdHandler(req) ==
  IF req.id \in DOMAIN courses THEN Reply(req, OK, {req.id}) ELSE Reply(req, NOT_FOUND, {})

getTopicContentHandler(req) ==
  IF req.id \in DOMAIN topics
  THEN Reply(req, OK, ContentsOfTopics({req.id}))
  ELSE Reply(req, NOT_FOUND, {})

(* ------------------------------------------------------- the lookup asserts *)
CourseLookupStatus(courseId, userId) ==
  Guard(courseId \in DOMAIN courses, CourseOwner(courseId), userId)

TopicLookupStatus(topicId, userId) ==
  IF TopicChainBroken(topicId) THEN THROWN
  ELSE Guard(topicId \in DOMAIN topics, TopicOwner(topicId), userId)

ContentLookupStatus(contentId, userId) ==
  IF ContentChainBroken(contentId) THEN THROWN
  ELSE Guard(contentId \in DOMAIN contents, ContentOwner(contentId), userId)

(* -------------------------------------------------- addTopicToCourseHandler *)
AddTopicStatusNoOwner(req) ==
  IF ~(req.id # 0 /\ Truthy(req.title)) THEN BAD_REQUEST
  ELSE IF req.id \notin DOMAIN courses THEN NOT_FOUND
  ELSE 0

AddTopicStatus(req) ==
  IF ~(req.id # 0 /\ Truthy(req.title)) THEN BAD_REQUEST
  ELSE CourseLookupStatus(req.id, req.userId)

addTopicToCourseHandler(req) ==
  IF AddTopicStatus(req) # 0 THEN Reply(req, AddTopicStatus(req), {})
  ELSE Suspend(req, PrismaCall(req, "", ""))

(* lines 139-146: prisma.topic.create.  When the course was deleted since   *)
(* the lookup, a foreign key refuses the row; without an enforced foreign   *)
(* key the topic is stored under the missing course.                        *)
addTopicWrite(p, fk) ==
  IF p.id \notin DOMAIN courses /\ fk
  THEN Refused(p)
  ELSE /\ topics' = (nextTopicId :> [title |-> p.title.v, courseId |-> p.id])
                    @@ topics
       /\ nextTopicId' = nextTopicId + 1
       /\ Answered(p, CREATED, {nextTopicId})
       /\ UNCHANGED <<courses, contents, nextCourseId, nextContentId>>

(* ------------------------------------------------- addContentToTopicHandler *)
AddContentStatus(req) ==
  IF ~(req.id # 0 /\ Truthy(req.type) /\ Truthy(req.data)) THEN BAD_REQUEST
  ELSE IF TopicLookupStatus(req.id, req.userId) # 0
       THEN TopicLookupStatus(req.id, req.userId)
  ELSE IF req.type.v \notin validTypes THEN BAD_REQUEST
  ELSE 0

addContentToTopicHandler(req) ==
  IF AddContentStatus(req) # 0 THEN Reply(req, AddContentStatus(req), {})
  ELSE Suspend(req, PrismaCall(req, "", ""))

(* lines 174-182: prisma.content.create *)
addContentWrite(p, fk) ==
  IF p.id \notin DOMAIN topics /\ fk
  THEN Refused(p)
  ELSE /\ contents' = (nextContentId :>
                         [type |-> p.type.v, data |-> p.data.v, topicId |-> p.id])
                      @@ contents
       /\ nextContentId' = nextContentId + 1
       /\ Answered(p, CREATED, {nextContentId})
       /\ UNCHANGED <<courses, topics, nextCourseId, nextTopicId>>

(* ------------------------------------------------------ deleteCourseHandler *)
deleteCourseHandler(req) ==
  IF CourseLookupStatus(req.id, req.userId) # 0
  THEN Reply(req, CourseLookupStatus(req.id, req.userId), {})
  ELSE Suspend(req, PrismaCall(req, "", ""))

(* What the schema does with the rows under a deleted row: it deletes them  *)
(* too, refuses the delete, or leaves them behind.  The schema is not in    *)
(* the controller, so the three are modelled.                               *)
OnDelete == { "cascade", "restrict", "orphan" }

(* lines 203-207: prisma.course.delete.  A row already gone is refused. *)
deleteCourseWrite(p, onDelete) ==
  LET ts == TopicsOfCourse(p.id)
  IN IF p.id \notin DOMAIN courses THEN Refused(p)
     ELSE IF ts # {} /\ onDelete = "restrict" THEN Refused(p)
     ELSE /\ courses' = Remove(courses, {p.id})
          /\ topics' = IF onDelete = "cascade" THEN Remove(topics, ts) ELSE topics
          /\ contents' = IF onDelete = "cascade"
                         THEN Remove(contents, ContentsOfTopics(ts)) ELSE contents
          /\ Answered(p, OK, {})
          /\ UNCHANGED <<nextCourseId, nextTopicId, nextContentId>>

(* ------------------------------------------------------ updateCourseHandler *)
(* lines 221-241: the image to write is fixed from the row read here *)
updateCourseHandler(req) ==
  IF CourseLookupStatus(req.id, req.userId) # 0
  THEN Reply(req, CourseLookupStatus(req.id, req.userId), {})
  ELSE Suspend(req, PrismaCall(req, "", IF req.file # NoFile
                                        THEN ReadFileBase64(req.file)
                                        ELSE courses[req.id].image))

(* lines 244-257: prisma.course.update *)
updateCourseWrite(p) ==
  IF p.id \notin DOMAIN courses THEN Refused(p)
  ELSE /\ courses' = [courses EXCEPT ![p.id] =
                        [ title |-> Patch(@.title, p.title),
                          isPublic |-> p.isPublic,
                          teacherId |-> @.teacherId,
                          image |-> p.image ]]
       /\ Answered(p, OK, {p.id})
       /\ UNCHANGED <<topics, contents, nextCourseId, nextTopicId, nextContentId>>

(* ------------------------------------------------------- updateTopicHandler *)
updateTopicHandler(req) ==
  IF TopicLookupStatus(req.id, req.userId) # 0
  THEN Reply(req, TopicLookupStatus(req.id, req.userId), {})
  ELSE Suspend(req, PrismaCall(req, "", ""))

updateTopicWrite(p) ==
  IF p.id \notin DOMAIN topics THEN Refused(p)
  ELSE /\ topics' = [topics EXCEPT ![p.id].title = Patch(@, p.title)]
       /\ Answered(p, OK, {p.id})
       /\ UNCHANGED <<courses, contents, nextCourseId, nextTopicId, nextContentId>>

(* ----------------------------------------------------- updateContentHandler *)
updateContentHandler(req) ==
  IF ContentLookupStatus(req.id, req.userId) # 0
  THEN Reply(req, ContentLookupStatus(req.id, req.userId), {})
  ELSE Suspend(req, PrismaCall(req, "", ""))

(* lines 307-315: req.body.type goes to prisma.content.update unchecked.    *)
(* The schema is not part of the controller: a String column stores any     *)
(* type, an enum column refuses one outside the enumeration.  Both are      *)
(* modelled.                                                                *)
updateContentWrite(p, enumColumn) ==
  IF p.id \notin DOMAIN contents THEN Refused(p)
  ELSE IF enumColumn /\ p.type.t # "undefined" /\ p.type.v \notin validTypes
  THEN Refused(p)
  ELSE /\ contents' = [contents EXCEPT ![p.id].type = Patch(@, p.type),
                                       ![p.id].data = Patch(@, p.data)]
       /\ Answered(p, OK, {p.id})
       /\ UNCHANGED <<courses, topics, nextCourseId, nextTopicId, nextContentId>>

(* ----------------------------------------------------- deleteContentHandler *)
deleteContentHandler(req) ==
  IF ContentLookupStatus(req.id, req.userId) # 0
  THEN Reply(req, ContentLookupStatus(req.id, req.userId), {})
  ELSE Suspend(req, PrismaCall(req, "", ""))

deleteContentWrite(p) ==
  IF p.id \notin DOMAIN contents THEN Refused(p)
  ELSE /\ contents' = Remove(contents, {p.id})
       /\ Answered(p, OK, {})
       /\ UNCHANGED <<courses, topics, nextCourseId, nextTopicId, nextContentId>>

(* ------------------------------------------------------- deleteTopicHandler *)
deleteTopicHandler(req) ==
  IF TopicLookupStatus(req.id, req.userId) # 0
  THEN Reply(req, TopicLookupStatus(req.id, req.userId), {})
  ELSE Suspend(req, PrismaCall(req, "", ""))

deleteTopicWrite(p, onDelete) ==
  LET cs == ContentsOfTopics({p.id})
  IN IF p.id \notin DOMAIN topics THEN Refused(p)
     ELSE IF cs # {} /\ onDelete = "restrict" THEN Refused(p)
     ELSE /\ topics' = Remove(topics, {p.id})
          /\ contents' = IF onDelete = "cascade" THEN Remove(contents, cs) ELSE contents
          /\ Answered(p, OK, {})
          /\ UNCHANGED <<courses, nextCourseId, nextTopicId, nextContentId>>

(* ------------------------------------------------------------- the routes *)
(* Each route runs its middleware chain and then the handler up to its      *)
(* write.  A request a middleware turns away is logged without its body.    *)
(* in is the record of the input sets the requests are drawn from, so that  *)
(* a specification can bound them.                                          *)
Passes(op, caller) == ChainStatus(RouteChain(op), caller) = 0

GetAllCourses ==
  /\ Idle /\ Room
  /\ \E caller \in Callers :
       LET req == BaseReq("getAllCourses", caller)
       IN IF Passes(req.op, caller) THEN getAllCoursesHandler(req) ELSE Rejected(req)

GetPublicCourses ==
  /\ Idle /\ Room
  /\ \E caller \in Callers :
       LET req == BaseReq("getPublicCourses", caller)
       IN IF Passes(req.op, caller) THEN getPublicCoursesHandler(req) ELSE Rejected(req)

GetCourseById(in) ==
  /\ Idle /\ Room
  /\ \E caller \in Callers :
       IF Passes("getCourseById", caller)
       THEN \E id \in Ids \ {0} :
              getCourseByIdHandler([BaseReq("getCourseById", caller) EXCEPT !.id = id])
       ELSE Rejected(BaseReq("getCourseById", caller))

CreateCourse(in) ==
  /\ Idle /\ Room
  /\ RoomForRow
  /\ \E caller \in Callers :
       IF Passes("createCourse", caller)
       THEN \E title \in in.titles, isPublic \in in.publics, file \in in.files :
              createCourseHandler([BaseReq("createCourse", caller) EXCEPT
                                     !.title = title, !.isPublic = isPublic,
                                     !.file = file])
       ELSE Rejected(BaseReq("createCourse", caller))

AddTopic(in) ==
  /\ Idle /\ Room
  /\ RoomForRow
  /\ \E caller \in Callers :
       IF Passes("addTopic", caller)
       THEN \E id \in Ids, title \in in.topicTitles :
              addTopicToCourseHandler([BaseReq("addTopic", caller) EXCEPT
                                         !.id = id, !.title = title])
       ELSE Rejected(BaseReq("addTopic", caller))

AddContent(in) ==
  /\ Idle /\ Room
  /\ RoomForRow
  /\ \E caller \in Callers :
       IF Passes("addContent", caller)
       THEN \E id \in Ids, type \in in.types, data \in in.datas :
              addContentToTopicHandler([BaseReq("addContent", caller) EXCEPT
                                          !.id = id, !.type = type, !.data = data])
       ELSE Rejected(BaseReq("addContent", caller))

DeleteCourse(in) ==
  /\ Idle /\ Room
  /\ \E caller \in Callers :
       IF Passes("deleteCourse", caller)
       THEN \E id \in Ids \ {0} :
              deleteCourseHandler([BaseReq("deleteCourse", caller) EXCEPT !.id = id])
       ELSE Rejected(BaseReq("deleteCourse", caller))

UpdateCourse(in) ==
  /\ Idle /\ Room
  /\ \E caller \in Callers :
       IF Passes("updateCourse", caller)
       THEN \E id \in Ids \ {0}, title \in in.newTitles,
               isPublic \in in.newPublics, file \in in.newFiles :
              updateCourseHandler([BaseReq("updateCourse", caller) EXCEPT
                                     !.id = id, !.title = title,
                                     !.isPublic = isPublic, !.file = file])
       ELSE Rejected(BaseReq("updateCourse", caller))

UpdateTopic(in) ==
  /\ Idle /\ Room
  /\ \E caller \in Callers :
       IF Passes("updateTopic", caller)
       THEN \E id \in Ids \ {0}, title \in in.newTopicTitles :
              updateTopicHandler([BaseReq("updateTopic", caller) EXCEPT
                                    !.id = id, !.title = title])
       ELSE Rejected(BaseReq("updateTopic", caller))

UpdateContent(in) ==
  /\ Idle /\ Room
  /\ \E caller \in Callers :
       IF Passes("updateContent", caller)
       THEN \E id \in Ids \ {0}, type \in in.newTypes, data \in in.newDatas :
              updateContentHandler([BaseReq("updateContent", caller) EXCEPT
                                      !.id = id, !.type = type, !.data = data])
       ELSE Rejected(BaseReq("updateContent", caller))

DeleteContent(in) ==
  /\ Idle /\ Room
  /\ \E caller \in Callers :
       IF Passes("deleteContent", caller)
       THEN \E id \in Ids \ {0} :
              deleteContentHandler([BaseReq("deleteContent", caller) EXCEPT !.id = id])
       ELSE Rejected(BaseReq("deleteContent", caller))

DeleteTopic(in) ==
  /\ Idle /\ Room
  /\ \E caller \in Callers :
       IF Passes("deleteTopic", caller)
       THEN \E id \in Ids \ {0} :
              deleteTopicHandler([BaseReq("deleteTopic", caller) EXCEPT !.id = id])
       ELSE Rejected(BaseReq("deleteTopic", caller))

GetTopicContent(in) ==
  /\ Idle /\ Room
  /\ \E caller \in Callers :
       IF Passes("getTopicContent", caller)
       THEN \E id \in Ids \ {0} :
              getTopicContentHandler([BaseReq("getTopicContent", caller) EXCEPT !.id = id])
       ELSE Rejected(BaseReq("getTopicContent", caller))

(* ------------------------------------------------------------- the writes *)
PendingOf(op) == { p \in BagToSet(pending) : p.op = op }

(* Outside createCourseHandler no write sits in a try/catch: when the       *)
(* storage layer rejects the call for a reason of its own (connection lost, *)
(* timeout) the rejection leaves the handler and nothing is written.        *)

CreateCourseWrite ==
  /\ Idle
  /\ \E p \in PendingOf("createCourse"), dbOk \in BOOLEAN : createCourseWrite(p, dbOk)

AddTopicWrite ==
  /\ Idle
  /\ \E p \in PendingOf("addTopic"), dbOk \in BOOLEAN, fk \in BOOLEAN :
       IF dbOk THEN addTopicWrite(p, fk) ELSE Refused(p)

AddContentWrite ==
  /\ Idle
  /\ \E p \in PendingOf("addContent"), dbOk \in BOOLEAN, fk \in BOOLEAN :
       IF dbOk THEN addContentWrite(p, fk) ELSE Refused(p)

DeleteCourseWrite ==
  /\ Idle
  /\ \E p \in PendingOf("deleteCourse"), dbOk \in BOOLEAN, onDelete \in OnDelete :
       IF dbOk THEN deleteCourseWrite(p, onDelete) ELSE Refused(p)

UpdateCourseWrite ==
  /\ Idle
  /\ \E p \in PendingOf("updateCourse"), dbOk \in BOOLEAN :
       IF dbOk THEN updateCourseWrite(p) ELSE Refused(p)

UpdateTopicWrite ==
  /\ Idle
  /\ \E p \in PendingOf("updateTopic"), dbOk \in BOOLEAN :
       IF dbOk THEN updateTopicWrite(p) ELSE Refused(p)

UpdateContentWrite ==
  /\ Idle
  /\ \E p \in PendingOf("updateContent"), dbOk \in BOOLEAN, enumColumn \in BOOLEAN :
       IF dbOk THEN updateContentWrite(p, enumColumn) ELSE Refused(p)

DeleteContentWrite ==
  /\ Idle
  /\ \E p \in PendingOf("deleteContent"), dbOk \in BOOLEAN :
       IF dbOk THEN deleteContentWrite(p) ELSE Refused(p)

DeleteTopicWrite ==
  /\ Idle
  /\ \E p \in PendingOf("deleteTopic"), dbOk \in BOOLEAN, onDelete \in OnDelete :
       IF dbOk THEN deleteTopicWrite(p, onDelete) ELSE Refused(p)

(* the handler step is over: control is back with the event loop *)
StepSeen ==
  /\ ~Idle
  /\ last' = NoResponse
  /\ UNCHANGED <<courses, topics, contents, nextCourseId, nextTopicId, nextContentId,
                 pending>>

(* ---------------------------------------------------------- the router *)
(* The thirteen routes of CourseRoutes, the nine writes their handlers      *)
(* await, and the return to the event loop.                                 *)
Router(in) ==
  \/ GetAllCourses
  \/ GetPublicCourses
  \/ GetCourseById(in)
  \/ CreateCourse(in)
  \/ CreateCourseWrite
  \/ AddTopic(in)
  \/ AddTopicWrite
  \/ AddContent(in)
  \/ AddContentWrite
  \/ DeleteCourse(in)
  \/ DeleteCourseWrite
  \/ UpdateCourse(in)
  \/ UpdateCourseWrite
  \/ UpdateTopic(in)
  \/ UpdateTopicWrite
  \/ UpdateContent(in)
  \/ UpdateContentWrite
  \/ DeleteContent(in)
  \/ DeleteContentWrite
  \/ DeleteTopic(in)
  \/ DeleteTopicWrite
  \/ GetTopicContent(in)
  \/ StepSeen

(* the well-formed request of each route: every field present and valid *)
PlainInputs ==
  [ titles |-> { Str("A") }, publics |-> { Str("true") }, files |-> { "hi" },
    newTitles |-> { Undefined }, newPublics |-> { Str("true") }, newFiles |-> { NoFile },
    topicTitles |-> { Str("A") }, newTopicTitles |-> { Str("A") },
    types |-> { Str("TEXT") }, datas |-> { Str("x") },
    newTypes |-> { Undefined }, newDatas |-> { Str("x") } ]

(* ------------------------------------------------------- specification 1 *)
(* The course routes with missing and present titles and images and both    *)
(* visibilities.                                                            *)
CourseInputs ==
  [ PlainInputs EXCEPT
      !.titles = TitleInputs, !.publics = { Undefined, Str("true") },
      !.files = FileInputs, !.newPublics = { Undefined, Str("true") } ]

Next == Router(CourseInputs)

Spec == Init /\ [][Next]_vars

(* ------------------------------------------------------- specification 2 *)
(* Course creation and update over every form of the isPublic field.        *)
VisInputs ==
  [ PlainInputs EXCEPT
      !.publics = IsPublicInputs, !.newPublics = IsPublicInputs ]

NextVis == Router(VisInputs)

SpecVis == Init /\ [][NextVis]_vars

(* ------------------------------------------------------- specification 3 *)
(* The update and delete routes of the three levels; an update can bring a  *)
(* new title and a new image.                                               *)
MutateInputs ==
  [ PlainInputs EXCEPT
      !.newTitles = { Undefined, Str("B") }, !.newPublics = { Undefined },
      !.newTopicTitles = NewTitleInputs ]

NextMutate == Router(MutateInputs)

SpecMutate == Init /\ [][NextMutate]_vars

(* ------------------------------------------------------- specification 4 *)
(* Adding topics and contents with missing and invalid fields, while the    *)
(* course and the topics can be deleted under them and the course can get   *)
(* a new image.                                                             *)
AddInputs ==
  [ PlainInputs EXCEPT
      !.topicTitles = TitleInputs, !.types = TypeInputs, !.datas = DataInputs,
      !.newTypes = TypeInputs, !.newFiles = { NoFile, "old" } ]

NextAdd == Router(AddInputs)

SpecAdd == Init /\ [][NextAdd]_vars

TypeOK ==
  /\ DOMAIN courses \subseteq 1 .. (nextCourseId - 1)
  /\ DOMAIN topics \subseteq 1 .. (nextTopicId - 1)
  /\ DOMAIN contents \subseteq 1 .. (nextContentId - 1)
  /\ BagCardinality(pending) <= MaxInFlight

(* ================================================================ claims *)
UpdDelOps == { "updateCourse", "deleteCourse", "updateTopic", "deleteTopic",
               "updateContent", "deleteContent" }

AddOps == { "addTopic", "addContent" }

Enumeration == { "TEXT", "LINK", "YOUTUBE_VIDEO" }

(* the row a request names, in the store its handler looks it up in *)
TargetExists(req) ==
  CASE req.op \in {"updateCourse", "deleteCourse", "addTopic"} -> req.id \in DOMAIN courses
    [] req.op \in {"updateTopic", "deleteTopic", "addContent"} -> req.id \in DOMAIN topics
    [] OTHER -> req.id \in DOMAIN contents

(* the existing row a request names still hangs under a stored course *)
TargetInCourse(req) ==
  CASE req.op \in {"updateCourse", "deleteCourse", "addTopic"} -> TRUE
    [] req.op \in {"updateTopic", "deleteTopic", "addContent"} -> ~TopicChainBroken(req.id)
    [] OTHER -> ~ContentChainBroken(req.id)

(* userId of the teacher reached by walking content -> topic -> course -> teacher *)
TargetOwner(req) ==
  LET topicId == IF req.op \in {"updateContent", "deleteContent"}
                 THEN contents[req.id].topicId ELSE req.id
      courseId == IF req.op \in {"updateCourse", "deleteCourse", "addTopic"}
                  THEN req.id ELSE topics[topicId].courseId
  IN (CHOOSE t \in Teachers : t.teacherId = courses[courseId].teacherId).userId

StoreSame == courses' = courses /\ topics' = topics /\ contents' = contents

(* this step took a request of ops through its handler up to the write:    *)
(* it answered, or it issued the write (status 0)                           *)
LookupStep(ops) ==
  /\ last' # last
  /\ last'.reached
  /\ ~last'.afterWrite
  /\ last'.req.op \in ops

(* this step is the one after the awaited write of a call of ops *)
WriteStep(ops) ==
  /\ last' # last
  /\ last'.afterWrite
  /\ last'.call.op \in ops
  /\ last'.call \in BagToSet(pending)

(* C1: an update or delete of an existing course, topic or content by a     *)
(* caller who is not the owning teacher answers 401 and leaves every stored *)
(* course, topic and content as it was: the request is answered from the    *)
(* lookup and no write is issued for it.                                    *)
C1_ForeignMutationDenied ==
  [][ ( /\ LookupStep(UpdDelOps)
        /\ TargetExists(last'.req)
        /\ TargetInCourse(last'.req)
        /\ TargetOwner(last'.req) # last'.req.userId )
      => (last'.status = UNAUTHORIZED /\ StoreSame /\ pending' = pending) ]_vars

C1_Witness ==
  /\ last.reached
  /\ last.req.op = "deleteContent"
  /\ last.req.id \in DOMAIN contents
  /\ ~ContentChainBroken(last.req.id)
  /\ last.req.userId = "u2"
  /\ courses[topics[contents[last.req.id].topicId].courseId].teacherId = "t1"
  /\ last.status = UNAUTHORIZED

(* C2: an update or delete whose target id is not in the store when the     *)
(* handler looks it up answers 404 for every caller, whether or not that    *)
(* caller owns anything, and writes and removes nothing.                    *)
C2_MissingTargetNotFound ==
  [][ ( LookupStep(UpdDelOps) /\ ~TargetExists(last'.req) )
      => (last'.status = NOT_FOUND /\ StoreSame /\ pending' = pending) ]_vars

C2_Witness ==
  /\ last.reached
  /\ last.req.op = "deleteTopic"
  /\ last.req.id \notin DOMAIN topics
  /\ last.req.userId = "u3"
  /\ last.status = NOT_FOUND
  /\ topics # << >>

AddFieldsPresent(req) ==
  IF req.op = "addTopic" THEN req.id # 0 /\ Truthy(req.title)
  ELSE req.id # 0 /\ Truthy(req.type) /\ Truthy(req.data)

(* a create is issued only for the owner of the named course or topic, and  *)
(* a topic or content appears only by a create that was issued so           *)
OnlyOwnerCreates ==
  /\ ( LookupStep(AddOps) /\ last'.status = 0 )
     => ( /\ TargetExists(last'.req)
          /\ TargetInCourse(last'.req)
          /\ TargetOwner(last'.req) = last'.req.userId )
  /\ ( (DOMAIN topics') \ (DOMAIN topics) # {} \/ (DOMAIN contents') \ (DOMAIN contents) # {} )
     => ( WriteStep(AddOps) /\ last'.status = CREATED )
  /\ ( last' # last /\ last'.status = CREATED /\ last'.call.op \in AddOps )
     => WriteStep(AddOps)

(* C3 as stated: add-topic and add-content create (201) only for the owner, *)
(* and a request naming an existing course or topic of another teacher      *)
(* answers 401 and creates nothing.                                         *)
C3_Original ==
  [][ /\ OnlyOwnerCreates
      /\ ( /\ LookupStep(AddOps)
           /\ TargetExists(last'.req)
           /\ TargetInCourse(last'.req)
           /\ TargetOwner(last'.req) # last'.req.userId )
         => (last'.status = UNAUTHORIZED /\ StoreSame /\ pending' = pending) ]_vars

(* C3 amended: add-topic and add-content create (201) only for a caller who *)
(* owned the named course, or the course of the named topic, when the       *)
(* handler looked it up; a request naming an existing course or topic of    *)
(* another teacher creates nothing and answers 401 when its required body   *)
(* fields are all present and 400 when one of them is missing.              *)
C3_OnlyOwnerAdds ==
  [][ /\ OnlyOwnerCreates
      /\ ( /\ LookupStep(AddOps)
           /\ TargetExists(last'.req)
           /\ TargetInCourse(last'.req)
           /\ TargetOwner(last'.req) # last'.req.userId )
         => ( /\ StoreSame
              /\ pending' = pending
              /\ last'.status = IF AddFieldsPresent(last'.req)
                                THEN UNAUTHORIZED ELSE BAD_REQUEST ) ]_vars

C3_Witness ==
  /\ last.reached
  /\ last.req.op = "addContent"
  /\ last.req.id \in DOMAIN topics
  /\ ~TopicChainBroken(last.req.id)
  /\ courses[topics[last.req.id].courseId].teacherId = "t1"
  /\ last.req.userId = "u2"
  /\ Truthy(last.req.type) /\ Truthy(last.req.data)
  /\ last.status = UNAUTHORIZED
  /\ contents = << >>

InvalidCreate(req) ==
  req.op = "createCourse" /\ (~Truthy(req.title) \/ req.file = NoFile)

(* C4 as stated: a create-course request without a title or without an     *)
(* image answers 400 and persists no course, whatever the store holds.      *)
C4_Original ==
  [][ ( LookupStep({"createCourse"}) /\ InvalidCreate(last'.req) )
      => (last'.status = BAD_REQUEST /\ courses' = courses /\ pending' = pending) ]_vars

HasTeacherProfile(userId) == \E t \in Teachers : t.userId = userId

(* C4 amended: a create-course request without a title or without an image  *)
(* persists no course and issues no write; it answers 400, except that a    *)
(* request with a title and no image from a caller without a teacher        *)
(* profile answers 404.                                                     *)
C4_InvalidCreatePersistsNothing ==
  [][ ( LookupStep({"createCourse"}) /\ InvalidCreate(last'.req) )
      => ( /\ courses' = courses
           /\ pending' = pending
           /\ last'.status = IF Truthy(last'.req.title)
                                /\ ~HasTeacherProfile(last'.req.userId)
                             THEN NOT_FOUND ELSE BAD_REQUEST ) ]_vars

C4_Witness ==
  /\ last.reached
  /\ last.req.op = "createCourse"
  /\ Truthy(last.req.title)
  /\ last.req.file = NoFile
  /\ last.req.userId = "u1"
  /\ last.status = BAD_REQUEST
  /\ courses # << >>

(* C5: the public list is exactly the set of stored courses whose           *)
(* visibility flag is true; no private course is ever in it.                *)
C5_PublicListExact ==
  ( last.reached /\ last.req.op = "getPublicCourses" )
  => ( /\ last.status = OK
       /\ \A c \in DOMAIN courses : (c \in last.result) <=> (courses[c].isPublic = TRUE)
       /\ last.result \subseteq DOMAIN courses )

C5_Witness ==
  /\ last.reached
  /\ last.req.op = "getPublicCourses"
  /\ last.result # {}
  /\ \E c \in DOMAIN courses : ~courses[c].isPublic

SubmittedTrue(isPublic) ==
  \/ (isPublic.t = "string" /\ isPublic.v = "true")
  \/ (isPublic.t = "boolean" /\ isPublic.v = "true")

(* C6: a successful create-course or update-course stores the visibility    *)
(* flag true exactly when the submitted isPublic is the string "true" or    *)
(* the boolean true, and false for every other submitted value: the write   *)
(* the handler issues carries that flag, and the row a successful write     *)
(* leaves has the flag the write carried.                                   *)
C6_VisibilityNormalised ==
  /\ ( /\ last.reached /\ ~last.afterWrite /\ last.status = 0
       /\ last.req.op \in {"createCourse", "updateCourse"} )
     => ( /\ last.call \in BagToSet(pending)
          /\ last.call.isPublic = SubmittedTrue(last.req.isPublic) )
  /\ ( /\ last.afterWrite
       /\ last.call.op \in {"createCourse", "updateCourse"}
       /\ last.status \in {OK, CREATED} )
     => ( /\ last.result # {}
          /\ \A c \in last.result :
               c \in DOMAIN courses /\ courses[c].isPublic = last.call.isPublic )

C6_Witness ==
  /\ last.reached /\ ~last.afterWrite /\ last.status = 0
  /\ last.req.op = "updateCourse"
  /\ last.req.isPublic.t = "boolean" /\ last.req.isPublic.v = "true"
  /\ last.call.isPublic = TRUE
  /\ last.req.id \in DOMAIN courses
  /\ courses[last.req.id].isPublic = FALSE

BadTypeAdd(req) ==
  /\ req.op = "addContent"
  /\ req.id # 0 /\ Truthy(req.type) /\ Truthy(req.data)
  /\ req.type.v \notin Enumeration

(* C7: an add-content request with topicId, type and data all present and   *)
(* a type outside TEXT, LINK, YOUTUBE_VIDEO answers 400 and creates no      *)
(* content.  The handler compares the type with validTypes only after the   *)
(* topic lookup and the ownership assert, so on a topic that does not exist *)
(* the request answers 404 and on another teacher's topic 401; no content   *)
(* is created in either case.                                               *)
C7_BadTypeAnswers400 ==
  [][ ( LookupStep({"addContent"}) /\ BadTypeAdd(last'.req) )
      => (last'.status = BAD_REQUEST /\ contents' = contents /\ pending' = pending) ]_vars

(* C8: every stored course has exactly one owning teacher, the teacher      *)
(* profile of the caller who created it, and no step changes the teacherId  *)
(* of a course that stays in the store.  The create a handler issues        *)
(* carries the teacherId of the caller's profile; a course appears only by  *)
(* such a create and with the teacherId it carries.                         *)
C8_OwnerFixedAtCreation ==
  [][ /\ \A c \in (DOMAIN courses) \cap (DOMAIN courses') :
           courses'[c].teacherId = courses[c].teacherId
      /\ \A c \in (DOMAIN courses') \ (DOMAIN courses) :
           /\ WriteStep({"createCourse"})
           /\ courses'[c].teacherId = last'.call.teacherId
      /\ ( LookupStep({"createCourse"}) /\ last'.status = 0 )
         => ( /\ Cardinality({ t \in Teachers : t.teacherId = last'.call.teacherId }) = 1
              /\ \A t \in Teachers :
                   t.teacherId = last'.call.teacherId => t.userId = last'.req.userId ) ]_vars

C8_Witness ==
  /\ last.afterWrite
  /\ last.call.op = "updateCourse"
  /\ last.status = OK
  /\ last.result # {}
  /\ \A c \in last.result : courses[c].teacherId = "t2"
  /\ \E c \in DOMAIN courses : courses[c].teacherId = "t1"

(* C9: the all-courses list is answered only to a caller who passed         *)
(* authentication and the teacher-role check.                               *)
C9_AllCoursesTeacherOnly ==
  ( last.req.op = "getAllCourses" /\ last.reached /\ last.status = OK )
  => ( last.req.caller.authed /\ last.req.caller.role = "TEACHER" )

(* C10: every stored content has a type of the enumeration, and no content  *)
(* write the handlers issue carries a type outside it.                      *)
C10_ContentTypeInEnumeration ==
  /\ \A c \in DOMAIN contents : contents[c].type \in Enumeration
  /\ \A p \in BagToSet(pending) :
       ( p.op \in {"addContent", "updateContent"} /\ p.type.t # "undefined" )
       => p.type.v \in Enumeration

====
